---- MODULE Spec2Model ----
(***************************************************************************)
(* A model of gtar: the tar file Index (index.go) and the PartialReader    *)
(* (partial_reader.go), together with the part of the operating system     *)
(* they act on: the process's descriptor table and the open file           *)
(* descriptions behind it.                                                 *)
(*                                                                         *)
(* Descriptors.  os.Open creates a new open file description with its own  *)
(* read position.  unix.Dup (dup(2)) allocates the lowest free descriptor  *)
(* and makes it refer to the SAME open file description as the descriptor  *)
(* it duplicates: the two share one read position.  Closing a descriptor   *)
(* leaves the description alive while another descriptor refers to it.     *)
(*                                                                         *)
(* Bytes.  The byte stored at offset k of the backing file is represented  *)
(* by k itself, so every byte is distinguishable and "the bytes of the     *)
(* range [o, o+n)" is the sequence <<o, ..., o+n-1>>.                      *)
(***************************************************************************)
EXTENDS Integers, Sequences, FiniteSets, TLC

\* ------------------------------------------------------------------ bounds
\* Size of a tar block in the model (512 in the tar format).
BlockSize == 2
\* Size of the process's descriptor table: dup and open fail (EMFILE) beyond.
MaxFd == 3
\* Number of PartialReader objects the caller keeps at a time.
MaxReaders == 2
\* Largest buffer handed to PartialReader.Read.
MaxBuf == 2
\* Largest length handed to NewPartialReader by the caller directly.
MaxLen == 2

Min(a, b) == IF a <= b THEN a ELSE b

\* --------------------------------------------------------- the tar files
\* A header as tar.Reader.Next delivers it.  size is hdr.Size; phys is the
\* number of content bytes the member occupies in the file (less than size
\* for a sparse member, 0 for a header-only type whatever its size field);
\* bits are the setuid/setgid/sticky bits of hdr.Mode; ok is FALSE for a
\* block that does not parse as a header.
Reg(n, sz, bits) ==
    [name |-> n, typ |-> "reg", size |-> sz, phys |-> sz, bits |-> bits, ok |-> TRUE]
Dir(n) ==
    [name |-> n, typ |-> "dir", size |-> 0, phys |-> 0, bits |-> {}, ok |-> TRUE]
Sym(n) ==
    [name |-> n, typ |-> "symlink", size |-> 0, phys |-> 0, bits |-> {}, ok |-> TRUE]
Chr(n) ==
    [name |-> n, typ |-> "char", size |-> 0, phys |-> 0, bits |-> {}, ok |-> TRUE]
Sparse(n, sz, ph) ==
    [name |-> n, typ |-> "reg", size |-> sz, phys |-> ph, bits |-> {}, ok |-> TRUE]
Corrupt ==
    [name |-> "", typ |-> "reg", size |-> 0, phys |-> 0, bits |-> {}, ok |-> FALSE]

\* Content is padded to a whole number of blocks.
Padded(n) == ((n + BlockSize - 1) \div BlockSize) * BlockSize

\* Offset of the header block of member i of the members es (of what follows
\* the last member for i = Len(es) + 1).
RECURSIVE HdrStart(_, _)
HdrStart(es, i) ==
    IF i <= 1 THEN 0
    ELSE HdrStart(es, i - 1) + BlockSize + Padded(es[i - 1].phys)

\* A backing file: its members in archive order, whether the end-of-archive
\* marker (two zero blocks) follows them, how many bytes are missing from its
\* end (a truncated file), and whether lseek works on it (not on a FIFO);
\* with them, where each header starts and the file's size.
File(es, tr, cut, sk) ==
    [entries |-> es, trailer |-> tr, seekable |-> sk,
     starts |-> [i \in 1..(Len(es) + 1) |-> HdrStart(es, i)],
     size |-> HdrStart(es, Len(es) + 1) + (IF tr THEN 2 * BlockSize ELSE 0) - cut]

\* The files of the scan's runs: every kind of member and of damage.
TarFiles ==
    { File(<<Dir("d"), Reg("a", 2, {}), Reg("b", 1, {"setuid"})>>, TRUE, 0, TRUE),
      File(<<Reg("a", 1, {}), Reg("a", 2, {})>>, TRUE, 0, TRUE),
      File(<<Reg("a", 2, {"sticky"}), Sym("s"), Reg("e", 0, {})>>, FALSE, 0, TRUE),
      File(<<Chr("c"), Reg("b", 2, {})>>, TRUE, 0, TRUE),
      File(<<Reg("a", 1, {}), Sparse("b", 3, 1)>>, TRUE, 0, TRUE),
      File(<<Reg("a", 1, {}), Corrupt>>, TRUE, 0, TRUE),
      File(<<Reg("a", 2, {}), Reg("b", 2, {})>>, FALSE, 1, TRUE),
      File(<<Reg("a", 1, {})>>, TRUE, 0, FALSE),
      File(<< >>, FALSE, 0, TRUE) }

\* The files of the readers' runs: members with and without content.
ReadFiles ==
    { File(<<Dir("d"), Reg("a", 2, {})>>, TRUE, 0, TRUE) }

TrailerStart(file) == file.starts[Len(file.entries) + 1]
FileSize(file) == file.size

\* fstat's st_size: 0 for a FIFO.
StatSize(file) == IF file.seekable THEN file.size ELSE 0

\* ------------------------------------------------- archive/tar's reader
\* The mapping with no entry.
EmptyMap == [n \in {} |-> n]

\* A map that keeps the entry it has for a key.
PutFirst(m, k, v) ==
    [n \in DOMAIN m \cup {k} |-> IF n \in DOMAIN m THEN m[n] ELSE v]

\* m with key k set to v (Go's m[k] = v).
Put(m, k, v) == [n \in DOMAIN m \cup {k} |-> IF n = k THEN v ELSE m[n]]

\* The block tarr.Next() reads at offset q, avail bytes before the end of the
\* file: end of file before its first byte is a clean EOF, a zero block
\* followed by a zero block or by the end of the file is the end-of-archive
\* marker, a block that is no header is ErrHeader.  hit: the member whose
\* header starts at q, if one does.
ReadHeader(file, q, avail, hit) ==
    IF avail <= 0 THEN [err |-> "EOF", i |-> 0, pos |-> q]
    ELSE IF avail < BlockSize
      THEN [err |-> "ErrUnexpectedEOF", i |-> 0, pos |-> file.size]
    ELSE IF hit # {}
      THEN IF \E i \in hit : file.entries[i].ok
             THEN [err |-> "nil", i |-> CHOOSE j \in hit : TRUE, pos |-> q + BlockSize]
             ELSE [err |-> "ErrHeader", i |-> 0, pos |-> q + BlockSize]
    ELSE IF file.trailer /\ q = TrailerStart(file)
      THEN IF avail >= 2 * BlockSize
             THEN [err |-> "EOF", i |-> 0, pos |-> q + 2 * BlockSize]
           ELSE IF avail = BlockSize
             THEN [err |-> "EOF", i |-> 0, pos |-> file.size]
           ELSE [err |-> "ErrUnexpectedEOF", i |-> 0, pos |-> file.size]
    ELSE IF file.trailer /\ q = TrailerStart(file) + BlockSize
      THEN [err |-> "EOF", i |-> 0, pos |-> file.size]
    ELSE [err |-> "ErrHeader", i |-> 0, pos |-> q + BlockSize]

\* tarr.Next() with the file position at p and pad bytes of padding of the
\* previous member still to skip.  err is "nil" (header i was read), "EOF"
\* (end of archive) or a failure; pos is where the file position is left.
\* The reader first discards the padding (seeking to its last byte and reading
\* it), then reads one block.
TarNext(file, p, pad) ==
    IF pad > 0 /\ p + pad > file.size
      THEN [err |-> "ErrUnexpectedEOF", i |-> 0, pos |-> p + pad - 1]
    ELSE ReadHeader(file, p + pad, file.size - (p + pad),
                    {i \in 1..Len(file.entries) : file.starts[i] = p + pad})

\* The scan loop of NewFromFile, from file position p: the outcome, the
\* mapping built, the file position it leaves and (for the record) the members
\* whose header it read, in order.  The mapping of a failed scan is dropped
\* with the index (return nil, err).
ScanFailed(err, pos, read) ==
    [err |-> err, idx |-> EmptyMap, pos |-> pos, read |-> read]

RECURSIVE ScanLoop(_, _, _, _, _)
RECURSIVE ScanMember(_, _, _, _, _)
RECURSIVE ScanNext(_, _, _, _)

\* for { hdr, err := tarr.Next() ... }
ScanLoop(file, p, pad, idx, read) ==
    ScanNext(file, TarNext(file, p, pad), idx, read)

\* The loop's body after tarr.Next() returned nx.
ScanNext(file, nx, idx, read) ==
    IF nx.err = "EOF"
      THEN [err |-> "nil", idx |-> idx, pos |-> nx.pos, read |-> read]
    ELSE IF nx.err # "nil" THEN ScanFailed(nx.err, nx.pos, read)
    ELSE ScanMember(file, file.entries[nx.i], nx.pos, idx, Append(read, nx.i))

\* A loop body that enters the member without comparing end with pos+hdr.Size.
ScanMemberUnchecked(file, hdr, pos, idx, read) ==
    IF ~file.seekable THEN ScanFailed("ESPIPE", pos, read)
    ELSE IF pos + hdr.phys > file.size
      THEN ScanFailed("ErrUnexpectedEOF", file.size, read)
    ELSE ScanLoop(file, pos + hdr.phys, Padded(hdr.phys) - hdr.phys,
                  Put(idx, hdr.name, [hdr |-> hdr, Offset |-> pos]), read)

\* A loop body that records offset 0 for a member without content.
ScanMemberZeroOffset(file, hdr, pos, idx, read) ==
    IF ~file.seekable THEN ScanFailed("ESPIPE", pos, read)
    ELSE IF pos + hdr.phys > file.size
      THEN ScanFailed("ErrUnexpectedEOF", file.size, read)
    ELSE IF pos + hdr.phys # pos + hdr.size
      THEN ScanFailed("unsupported sparse file", pos + hdr.phys, read)
    ELSE ScanLoop(file, pos + hdr.phys, Padded(hdr.phys) - hdr.phys,
                  Put(idx, hdr.name,
                      [hdr |-> hdr, Offset |-> IF hdr.size = 0 THEN 0 ELSE pos]),
                  read)

\* A loop body that takes a drain cut short by the file's end for a whole one.
ScanMemberCutShort(file, hdr, pos, idx, read) ==
    IF ~file.seekable THEN ScanFailed("ESPIPE", pos, read)
    ELSE IF pos + hdr.phys # pos + hdr.size
      THEN ScanFailed("unsupported sparse file", pos + hdr.phys, read)
    ELSE ScanLoop(file, pos + hdr.phys, Padded(hdr.phys) - hdr.phys,
                  Put(idx, hdr.name, [hdr |-> hdr, Offset |-> pos]), read)

\* The loop's body for header hdr, the file position being pos after it: the
\* first Seek, the drain of the hdr.phys content bytes, the second Seek, the
\* comparison of end with pos+hdr.Size, and the entry.
ScanMember(file, hdr, pos, idx, read) ==
    IF ~file.seekable THEN ScanFailed("ESPIPE", pos, read)
    ELSE IF pos + hdr.phys > file.size
      THEN ScanFailed("ErrUnexpectedEOF", file.size, read)
    ELSE IF pos + hdr.phys # pos + hdr.size
      THEN ScanFailed("unsupported sparse file", pos + hdr.phys, read)
    ELSE ScanLoop(file, pos + hdr.phys, Padded(hdr.phys) - hdr.phys,
                  Put(idx, hdr.name, [hdr |-> hdr, Offset |-> pos]), read)

\* -------------------------------------------------- the descriptor table
\* sys = [fd, pos].  fd[k] names the open file description descriptor k refers
\* to (0: k is not open); descriptors with the same name share one description.
\* A description is named after the lowest descriptor that refers to it, and
\* pos[o] is the read position of the description named o.  Descriptor numbers
\* mean nothing to the program, so each os.File object has a number of its own
\* (see the state below) instead of the lowest free one.
OpenFds(sys) == {k \in DOMAIN sys.fd : sys.fd[k] # 0}

\* The lowest descriptor that refers to the description descriptor k does.
Lead(fd, k) ==
    CHOOSE j \in DOMAIN fd :
        /\ fd[j] = fd[k]
        /\ \A h \in DOMAIN fd : fd[h] = fd[k] => j <= h

\* The same table with every description named after its lowest descriptor.
Canon(fd, pos) ==
    [fd |-> [k \in DOMAIN fd |-> IF fd[k] = 0 THEN 0 ELSE Lead(fd, k)],
     pos |-> [k \in DOMAIN fd |->
                 IF fd[k] # 0 /\ Lead(fd, k) = k THEN pos[fd[k]] ELSE 0]]

\* The read position descriptor k reads at, and the table with it set to p.
PosOf(sys, k) == sys.pos[sys.fd[k]]
SetPos(sys, k, p) == [sys EXCEPT !.pos[sys.fd[k]] = p]

\* os.Open into descriptor k: a new description, at position 0.  EMFILE when
\* the table is full.
OsOpen(sys, path, k) ==
    IF path # "tar" THEN [err |-> "ENOENT", sys |-> sys, f |-> 0]
    ELSE IF Cardinality(OpenFds(sys)) >= MaxFd
      THEN [err |-> "EMFILE", sys |-> sys, f |-> 0]
    ELSE [err |-> "nil",
          sys |-> Canon([sys.fd EXCEPT ![k] = k], [sys.pos EXCEPT ![k] = 0]),
          f |-> k]

\* A dup that opens the file anew when it is handed a closed os.File.
DupReopens(sys, f, k) ==
    IF Cardinality(OpenFds(sys)) >= MaxFd
      THEN [err |-> "EMFILE", sys |-> sys, f |-> 0]
    ELSE IF f = 0
      THEN [err |-> "nil",
            sys |-> Canon([sys.fd EXCEPT ![k] = k], [sys.pos EXCEPT ![k] = 0]),
            f |-> k]
    ELSE [err |-> "nil",
          sys |-> Canon([sys.fd EXCEPT ![k] = sys.fd[f]], sys.pos),
          f |-> k]

\* unix.Dup(int(f.Fd())) into descriptor k: f is 0 for a closed os.File, whose
\* Fd() is -1.  The new descriptor refers to f's description.
Dup(sys, f, k) ==
    IF f = 0 THEN [err |-> "EBADF", sys |-> sys, f |-> 0]
    ELSE IF Cardinality(OpenFds(sys)) >= MaxFd
      THEN [err |-> "EMFILE", sys |-> sys, f |-> 0]
    ELSE [err |-> "nil",
          sys |-> Canon([sys.fd EXCEPT ![k] = sys.fd[f]], sys.pos),
          f |-> k]

\* A close that ends the description: every descriptor that refers to the
\* description of k is gone with k.
CloseDescription(sys, k) ==
    Canon([j \in DOMAIN sys.fd |-> IF sys.fd[j] = sys.fd[k] THEN 0 ELSE sys.fd[j]],
          sys.pos)

\* close(2) of descriptor k; the description goes with its last descriptor.
CloseFd(sys, k) == Canon([sys.fd EXCEPT ![k] = 0], sys.pos)

\* os.File.Close of the object whose descriptor is f (0: already closed).
FileClose(sys, f) ==
    IF f = 0 THEN [err |-> "ErrClosed", sys |-> sys]
    ELSE [err |-> "nil", sys |-> CloseFd(sys, f)]

\* ------------------------------------------------------- partial_reader.go
NoReader ==
    [exists |-> FALSE, f |-> 0, remaining |-> 0,
     start |-> 0, length |-> 0, returned |-> 0, wrong |-> FALSE, eod |-> FALSE]

\* The code holds f and remaining.  Kept for the record: the range's start
\* and length, returned (the number of bytes the Reads have returned), wrong
\* (a Read returned bytes that are not the next bytes of the range) and eod (a
\* Read reported io.EOF).
PartialReader(f, offset, length) ==
    [exists |-> TRUE, f |-> f, remaining |-> length,
     start |-> offset, length |-> length,
     returned |-> 0, wrong |-> FALSE, eod |-> FALSE]

\* A range check that lets the file's end through: offset > size fails.
SeekAndStatPastEnd(sys, d, file, offset, length, statFails) ==
    IF d.err # "nil" THEN [err |-> d.err, sys |-> sys, pr |-> NoReader]
    ELSE IF offset < 0 \/ ~file.seekable \/ statFails \/ offset > StatSize(file)
      THEN [err |-> "cannot seek beyond EOF", sys |-> CloseFd(d.sys, d.f),
            pr |-> NoReader]
    ELSE [err |-> "nil", sys |-> SetPos(d.sys, d.f, offset),
          pr |-> PartialReader(d.f, offset, length)]

\* NewPartialReader after unix.Dup returned d (sys: the table before it): the
\* Seek to offset, the Stat and the check of offset against the size, each
\* closing the new descriptor when it fails.
SeekAndStat(sys, d, file, offset, length, statFails) ==
    IF d.err # "nil" THEN [err |-> d.err, sys |-> sys, pr |-> NoReader]
    ELSE IF offset < 0
      THEN [err |-> "EINVAL", sys |-> CloseFd(d.sys, d.f), pr |-> NoReader]
    ELSE IF ~file.seekable
      THEN [err |-> "ESPIPE", sys |-> CloseFd(d.sys, d.f), pr |-> NoReader]
    ELSE IF statFails \/ offset >= StatSize(file)
      THEN [err |-> "cannot seek beyond EOF",
            sys |-> CloseFd(SetPos(d.sys, d.f, offset), d.f), pr |-> NoReader]
    ELSE [err |-> "nil", sys |-> SetPos(d.sys, d.f, offset),
          pr |-> PartialReader(d.f, offset, length)]

\* NewPartialReader(f, offset, length).  statFails: whether f.Stat() fails; k:
\* the descriptor dup returns.
NewPartialReader(sys, file, f, offset, length, statFails, k) ==
    SeekAndStat(sys, Dup(sys, f, k), file, offset, length, statFails)

\* The n bytes of the file from offset o on.
RangeBytes(o, n) == [j \in 1..n |-> o + j - 1]

\* os.File.Read of up to n bytes (n > 0) through the open descriptor f whose
\* position is at: the min(n, size - at) bytes there, the position advancing by
\* their number, and io.EOF when nothing is left.
ReadAt(sys, file, f, at, n) ==
    IF file.size - at <= 0
      THEN [n |-> 0, err |-> "EOF", sys |-> sys, bytes |-> << >>]
    ELSE [n |-> Min(n, file.size - at), err |-> "nil",
          sys |-> SetPos(sys, f, at + Min(n, file.size - at)),
          bytes |-> RangeBytes(at, Min(n, file.size - at))]

\* os.File.Read into a buffer of n bytes through descriptor f (0: closed).
FileRead(sys, file, f, n) ==
    IF f = 0 THEN [n |-> 0, err |-> "ErrClosed", sys |-> sys, bytes |-> << >>]
    ELSE IF n = 0 THEN [n |-> 0, err |-> "nil", sys |-> sys, bytes |-> << >>]
    ELSE ReadAt(sys, file, f, PosOf(sys, f), n)

\* PartialReader.Read after pr.f.Read returned r: remaining goes down by n.
AfterRead(pr, r) ==
    [n |-> r.n, err |-> r.err, sys |-> r.sys,
     pr |-> [pr EXCEPT !.remaining = pr.remaining - r.n,
                       !.returned = pr.returned + r.n,
                       !.wrong = pr.wrong \/
                           r.bytes # RangeBytes(pr.start + pr.returned, r.n),
                       !.eod = pr.eod \/ r.err = "EOF"]]

\* A Read that hands the whole buffer to the file.
PartialReadUnclamped(sys, file, pr, buflen) ==
    IF pr.remaining <= 0
      THEN [n |-> 0, err |-> "EOF", sys |-> sys, pr |-> [pr EXCEPT !.eod = TRUE]]
    ELSE AfterRead(pr, FileRead(sys, file, pr.f, buflen))

\* PartialReader.Read(p) with len(p) = buflen.
PartialRead(sys, file, pr, buflen) ==
    IF pr.remaining <= 0
      THEN [n |-> 0, err |-> "EOF", sys |-> sys, pr |-> [pr EXCEPT !.eod = TRUE]]
    ELSE AfterRead(pr, FileRead(sys, file, pr.f, Min(buflen, pr.remaining)))

\* The reader after Close: f is gone and remaining stays.  Nothing is returned
\* through a closed reader, so its record starts afresh.
Closed(pr) ==
    [NoReader EXCEPT !.exists = TRUE, !.remaining = pr.remaining,
                     !.length = pr.remaining]

\* ---------------------------------------------------------------- index.go
NoIndex == [exists |-> FALSE, idx |-> EmptyMap, f |-> 0, read |-> << >>]

\* A failed scan that returns without index.Close().
ScannedNoClose(d, sc) ==
    IF sc.err # "nil"
      THEN [err |-> sc.err, sys |-> SetPos(d.sys, d.f, sc.pos),
            index |-> NoIndex, read |-> sc.read]
    ELSE [err |-> "nil", sys |-> SetPos(d.sys, d.f, sc.pos),
          index |-> [exists |-> TRUE, idx |-> sc.idx, f |-> d.f, read |-> sc.read],
          read |-> sc.read]

\* NewFromFile after the scan loop returned sc, d being what unix.Dup
\* returned: index.Close() and no index when the scan failed.
Scanned(d, sc) ==
    IF sc.err # "nil"
      THEN [err |-> sc.err, sys |-> CloseFd(SetPos(d.sys, d.f, sc.pos), d.f),
            index |-> NoIndex, read |-> sc.read]
    ELSE [err |-> "nil", sys |-> SetPos(d.sys, d.f, sc.pos),
          index |-> [exists |-> TRUE, idx |-> sc.idx, f |-> d.f, read |-> sc.read],
          read |-> sc.read]

\* NewFromFile after unix.Dup returned d (sys: the table before it).
\* tar.NewReader(index.f) reads from wherever the description of the
\* duplicated descriptor stands.
Duplicated(sys, d, file) ==
    IF d.err # "nil"
      THEN [err |-> d.err, sys |-> sys, index |-> NoIndex, read |-> << >>]
    ELSE Scanned(d, ScanLoop(file, PosOf(d.sys, d.f), 0, EmptyMap, << >>))

\* NewFromFile(tarf): tarf is the caller's descriptor (0: a closed os.File),
\* k the descriptor dup returns.
NewFromFile(sys, file, tarf, k) == Duplicated(sys, Dup(sys, tarf, k), file)

\* A New without its deferred f.Close().
DeferredNever(op, r) == r

\* The deferred f.Close() of New, NewFromFile having returned r.
Deferred(op, r) == [r EXCEPT !.sys = CloseFd(r.sys, op.f)]

\* New after os.Open returned op (sys: the table before it).
Opened(sys, op, file, k) ==
    IF op.err # "nil"
      THEN [err |-> op.err, sys |-> sys, index |-> NoIndex, read |-> << >>]
    ELSE Deferred(op, NewFromFile(op.sys, file, op.f, k))

\* New(path): os.Open (into descriptor tmp), NewFromFile, f.Close().
New(sys, file, path, k, tmp) == Opened(sys, OsOpen(sys, path, tmp), file, k)

\* An Open that takes a name it does not find for an empty member at the
\* file's start.
IndexOpenAny(sys, file, ix, name, statFails, k) ==
    IF name \notin DOMAIN ix.idx
      THEN NewPartialReader(sys, file, ix.f, 0, 0, statFails, k)
    ELSE NewPartialReader(sys, file, ix.f, ix.idx[name].Offset,
                          ix.idx[name].hdr.size, statFails, k)

\* Index.Open(name).
IndexOpen(sys, file, ix, name, statFails, k) ==
    IF name \notin DOMAIN ix.idx
      THEN [err |-> "no such element", sys |-> sys, pr |-> NoReader]
    ELSE NewPartialReader(sys, file, ix.f, ix.idx[name].Offset,
                          ix.idx[name].hdr.size, statFails, k)

\* el.FileInfo().Mode(): the permission bits (here "perm"), the setuid, setgid
\* and sticky bits of hdr.Mode, and the type bits of hdr.Typeflag.
TypeBits(typ) ==
    CASE typ = "dir" -> {"ModeDir"}
      [] typ = "symlink" -> {"ModeSymlink"}
      [] typ = "char" -> {"ModeDevice", "ModeCharDevice"}
      [] OTHER -> {}
FileMode(hdr) == {"perm"} \cup hdr.bits \cup TypeBits(hdr.typ)
\* mode & ^fs.ModePerm
NonPerm(mode) == mode \ {"perm"}

\* The entries the three iterators go through, in no particular order.
All(ix) == DOMAIN ix.idx
AllRegularFiles(ix) ==
    {path \in All(ix) : NonPerm(FileMode(ix.idx[path].hdr)) = {}}
AllRegularFilePaths(ix) ==
    {ix.idx[n].hdr.name : n \in {k \in DOMAIN ix.idx :
                                    NonPerm(FileMode(ix.idx[k].hdr)) = {}}}
ViewOf(ix, view) ==
    CASE view = "All" -> All(ix)
      [] view = "AllRegularFiles" -> AllRegularFiles(ix)
      [] OTHER -> AllRegularFilePaths(ix)

\* ------------------------------------------------------------- the state
VARIABLES
    file,      \* the backing tar file of this run
    fdtab,     \* descriptor -> the description it refers to (0: not open)
    ofdPos,    \* description -> read position
    tarf,      \* the caller's own os.File: [exists, f]
    indexes,   \* the Index objects the caller holds
    readers,   \* the PartialReader objects the caller holds
    last,      \* the last constructor call and what it returned
    yielded    \* the last range over an iterator and what it yielded

vars == <<file, fdtab, ofdPos, tarf, indexes, readers, last, yielded>>

\* Number of Index objects the caller keeps at a time.
MaxIndex == 1
\* A consumer that abandons an iterator does so within this many entries.
MaxStop == 1

Indexes == 1..MaxIndex
Readers == 1..MaxReaders

\* The descriptor numbers of the os.File objects: the caller's file, each
\* Index's f, each PartialReader's f, and the file New opens and closes.
TarfFd == 1
IndexFd(i) == TarfFd + i
ReaderFd(r) == TarfFd + MaxIndex + r
TmpFd == TarfFd + MaxIndex + MaxReaders + 1
Fds == TarfFd..TmpFd

Sys == [fd |-> fdtab, pos |-> ofdPos]

\* What a constructor (or the caller's os.Open) returned.  Read and Close
\* report through the objects (returned, eod, f) and leave no result here.
Result(op, err) == [op |-> op, err |-> err]
NoResult == Result("", "nil")

NoYield == [view |-> "", who |-> 0, stop |-> 0, names |-> {}, complete |-> FALSE]

\* The caller keeps a new object in the first slot whose object is gone or
\* closed.
FreeIndexSlots == {i \in Indexes : ~indexes[i].exists \/ indexes[i].f = 0}
FreeReaderSlots == {r \in Readers : ~readers[r].exists \/ readers[r].f = 0}
First(S) == CHOOSE x \in S : \A y \in S : x <= y

NamesOf(f) == {f.entries[i].name : i \in 1..Len(f.entries)}
OpenNames == NamesOf(file) \cup {"missing"}
\* Offsets the caller hands to NewPartialReader: before the file, its last
\* byte and its end.
CallOffsets == {-1, FileSize(file) - 1, FileSize(file)}
\* The same and the file's first byte.
CtorOffsets == CallOffsets \cup {0}

InitWith(files) ==
    /\ file \in files
    /\ fdtab = [k \in Fds |-> 0]
    /\ ofdPos = [o \in Fds |-> 0]
    /\ tarf = [exists |-> FALSE, f |-> 0]
    /\ indexes = [i \in Indexes |-> NoIndex]
    /\ readers = [r \in Readers |-> NoReader]
    /\ last = NoResult
    /\ yielded = NoYield

Init == InitWith(ReadFiles)
InitScan == InitWith(TarFiles)

SetSys(sys) == fdtab' = sys.fd /\ ofdPos' = sys.pos

\* The caller keeps the file os.Open returned as op.
KeepFile(op) ==
    /\ SetSys(op.sys)
    /\ tarf' = IF op.err = "nil" THEN [exists |-> TRUE, f |-> op.f] ELSE tarf
    /\ last' = Result("os.Open", op.err)

\* The caller keeps in slot i the index the constructor op returned (nil: it
\* keeps what it had).
KeepIndex(i, r, op) ==
    /\ SetSys(r.sys)
    /\ indexes' = IF r.index.exists THEN [indexes EXCEPT ![i] = r.index] ELSE indexes
    /\ last' = Result(op, r.err)
    /\ yielded' = IF r.index.exists /\ yielded.who = i THEN NoYield ELSE yielded

\* The caller keeps in slot r the reader the constructor op returned (nil: it
\* keeps what it had).
KeepReader(r, res, op) ==
    /\ SetSys(res.sys)
    /\ readers' = IF res.pr.exists THEN [readers EXCEPT ![r] = res.pr] ELSE readers
    /\ last' = Result(op, res.err)

\* The caller's os.Open of the tar file.
CallerOpen ==
    /\ ~tarf.exists
    /\ KeepFile(OsOpen(Sys, "tar", TarfFd))
    /\ UNCHANGED <<file, indexes, readers, yielded>>

\* The caller's Close of its own os.File.
CallerClose ==
    /\ tarf.exists
    /\ SetSys(FileClose(Sys, tarf.f).sys)
    /\ last' = NoResult
    /\ tarf' = [tarf EXCEPT !.f = 0]
    /\ UNCHANGED <<file, indexes, readers, yielded>>

\* The caller's Seek(p, io.SeekStart) on its own os.File.
CallerSeek(p) ==
    /\ tarf.exists
    /\ tarf.f # 0
    /\ file.seekable
    /\ ofdPos' = [ofdPos EXCEPT ![fdtab[tarf.f]] = p]
    /\ last' = NoResult
    /\ UNCHANGED <<file, fdtab, tarf, indexes, readers, yielded>>

DoNew(path) ==
    /\ FreeIndexSlots # {}
    /\ KeepIndex(First(FreeIndexSlots),
                 New(Sys, file, path, IndexFd(First(FreeIndexSlots)), TmpFd), "New")
    /\ UNCHANGED <<file, tarf, readers>>

DoNewFromFile ==
    /\ tarf.exists
    /\ FreeIndexSlots # {}
    /\ KeepIndex(First(FreeIndexSlots),
                 NewFromFile(Sys, file, tarf.f, IndexFd(First(FreeIndexSlots))),
                 "NewFromFile")
    /\ UNCHANGED <<file, tarf, readers>>

DoIndexClose(i) ==
    /\ indexes[i].exists
    /\ SetSys(FileClose(Sys, indexes[i].f).sys)
    /\ last' = NoResult
    /\ indexes' = [indexes EXCEPT ![i].f = 0]
    /\ UNCHANGED <<file, tarf, readers, yielded>>

DoOpen(i, name, statFails) ==
    /\ indexes[i].exists
    /\ FreeReaderSlots # {}
    /\ KeepReader(First(FreeReaderSlots),
                  IndexOpen(Sys, file, indexes[i], name, statFails,
                            ReaderFd(First(FreeReaderSlots))), "Open")
    /\ UNCHANGED <<file, tarf, indexes, yielded>>

DoNewPartialReader(offset, length, statFails) ==
    /\ tarf.exists
    /\ FreeReaderSlots # {}
    /\ KeepReader(First(FreeReaderSlots),
                  NewPartialReader(Sys, file, tarf.f, offset, length, statFails,
                                   ReaderFd(First(FreeReaderSlots))),
                  "NewPartialReader")
    /\ UNCHANGED <<file, tarf, indexes, yielded>>

\* The reader in slot r after its Read returned res.
Advance(r, res) ==
    /\ SetSys(res.sys)
    /\ readers' = [readers EXCEPT ![r] = res.pr]
    /\ last' = NoResult

DoRead(r, buflen) ==
    /\ readers[r].exists
    /\ Advance(r, PartialRead(Sys, file, readers[r], buflen))
    /\ UNCHANGED <<file, tarf, indexes, yielded>>

DoReaderClose(r) ==
    /\ readers[r].exists
    /\ SetSys(FileClose(Sys, readers[r].f).sys)
    /\ last' = NoResult
    /\ readers' = [readers EXCEPT ![r] = Closed(readers[r])]
    /\ UNCHANGED <<file, tarf, indexes, yielded>>

\* An iterator that goes on after yield returned false.
YieldsAll(V, stop) == {V}

\* What an iterator over the entries V can have yielded when the loop ends,
\* the consumer breaking at entry number stop (0: never): yield returns false
\* there and the iterator breaks.  The iterators go through a Go map, in any
\* order.
Yields(V, stop) ==
    {Y \in SUBSET V :
        Cardinality(Y) = IF stop = 0 THEN Cardinality(V) ELSE Min(stop, Cardinality(V))}

\* for ... range an iterator of Index i, by a consumer that breaks at entry
\* number stop (0: never).
DoRange(i, view, stop) ==
    /\ indexes[i].exists
    /\ \E Y \in Yields(ViewOf(indexes[i], view), stop) :
           yielded' = [view |-> view, who |-> i, stop |-> stop, names |-> Y,
                       complete |-> stop = 0 \/
                                    Cardinality(ViewOf(indexes[i], view)) < stop]
    /\ last' = NoResult
    /\ UNCHANGED <<file, fdtab, ofdPos, tarf, indexes, readers>>

Views == {"All", "AllRegularFiles", "AllRegularFilePaths"}

Next ==
    \/ CallerOpen
    \/ CallerClose
    \/ \E path \in {"tar", "nada"} : DoNew(path)
    \/ DoNewFromFile
    \/ \E i \in Indexes : DoIndexClose(i)
    \/ \E i \in Indexes, name \in OpenNames, sf \in BOOLEAN : DoOpen(i, name, sf)
    \/ \E off \in CallOffsets, len \in 1..MaxLen, sf \in BOOLEAN :
           DoNewPartialReader(off, len, sf)
    \/ \E r \in Readers, n \in 1..MaxBuf : DoRead(r, n)
    \/ \E r \in Readers : DoReaderClose(r)

Spec == Init /\ [][Next]_vars

\* The constructors' runs, over every file: no Read.
NextCtor ==
    \/ CallerOpen
    \/ CallerClose
    \/ \E path \in {"tar", "nada"} : DoNew(path)
    \/ DoNewFromFile
    \/ \E i \in Indexes : DoIndexClose(i)
    \/ \E i \in Indexes, name \in OpenNames, sf \in BOOLEAN : DoOpen(i, name, sf)
    \/ \E off \in CtorOffsets, len \in 1..MaxLen, sf \in BOOLEAN :
           DoNewPartialReader(off, len, sf)
    \/ \E r \in Readers : DoReaderClose(r)

SpecCtor == InitScan /\ [][NextCtor]_vars

\* The scan's runs, over every file and from every position of the caller's
\* file, and the iterators over what it built.
NextScan ==
    \/ CallerOpen
    \/ CallerClose
    \/ \E p \in 0..(FileSize(file) + 1) : CallerSeek(p)
    \/ \E path \in {"tar", "nada"} : DoNew(path)
    \/ DoNewFromFile
    \/ \E i \in Indexes : DoIndexClose(i)
    \/ \E i \in Indexes, view \in Views, stop \in 0..MaxStop : DoRange(i, view, stop)

SpecScan == InitScan /\ [][NextScan]_vars

\* The runs of an index's users, over every file: Open and the iterators.
NextView ==
    \/ DoNew("tar")
    \/ \E i \in Indexes : DoIndexClose(i)
    \/ \E i \in Indexes, name \in OpenNames : DoOpen(i, name, FALSE)
    \/ \E r \in Readers : DoReaderClose(r)
    \/ \E i \in Indexes, view \in Views, stop \in 0..MaxStop : DoRange(i, view, stop)

SpecView == InitScan /\ [][NextView]_vars

\* ---------------------------------------------------------------- claims
\* The descriptors that are open, and the table after the step.
OpenDescriptors == {k \in Fds : fdtab[k] # 0}
SysAfter == [fd |-> fdtab', pos |-> ofdPos']
Constructors == {"New", "NewFromFile", "NewPartialReader", "Open"}
LiveIndexes == {i \in Indexes : indexes[i].exists /\ indexes[i].f # 0}
LiveReaders == {r \in Readers : readers[r].exists /\ readers[r].f # 0}

\* Reader pr reads the range the scan recorded for a member of an index.
ReadsMember(pr) ==
    \E i \in Indexes : \E n \in DOMAIN indexes[i].idx :
        /\ indexes[i].idx[n].Offset = pr.start
        /\ indexes[i].idx[n].hdr.size = pr.length

\* C1: a reader that Open returned for a member of the index and that has
\* been read to end-of-data has returned exactly hdr.Size bytes, and they are
\* the file's bytes from the member's recorded offset on.
C1_OpenReadsTheMember ==
    \A r \in LiveReaders :
        (readers[r].eod /\ ReadsMember(readers[r])) =>
            /\ readers[r].returned = readers[r].length
            /\ ~readers[r].wrong

\* C2: every reader has a cursor of its own: a step that is not a call on
\* reader r leaves the position r's next Read is served from where it was, and
\* a step that is not a call on the index (an Open, a reader's Read) leaves the
\* index's cursor where it was.
C2_OwnCursor ==
    [][ /\ \A r \in LiveReaders :
               readers'[r] = readers[r] =>
                   ofdPos'[fdtab'[readers[r].f]] = ofdPos[fdtab[readers[r].f]]
        /\ \A i \in LiveIndexes :
               indexes'[i] = indexes[i] =>
                   ofdPos'[fdtab'[indexes[i].f]] = ofdPos[fdtab[indexes[i].f]]
      ]_vars

\* C3: for every reader, 0 <= remaining <= length and the bytes returned so
\* far plus remaining equal length; and once remaining is 0 a Read with any
\* buffer returns 0 bytes and end-of-data.
C3_RemainingBoundsReturned ==
    \A r \in Readers :
        readers[r].exists =>
            /\ 0 <= readers[r].remaining
            /\ readers[r].remaining <= readers[r].length
            /\ readers[r].returned + readers[r].remaining = readers[r].length
            /\ readers[r].remaining = 0 =>
                   \A n \in 0..MaxBuf :
                       /\ PartialRead(Sys, file, readers[r], n).n = 0
                       /\ PartialRead(Sys, file, readers[r], n).err = "EOF"

\* A reader that returned all of its range, was told end-of-data, and whose
\* file has more bytes where its cursor stands.
C3_Witness ==
    \E r \in LiveReaders :
        /\ readers[r].length > 0
        /\ readers[r].remaining = 0
        /\ readers[r].eod
        /\ PosOf(Sys, readers[r].f) < FileSize(file)

\* C4: a constructor call (New, NewFromFile, NewPartialReader, Open) that
\* returns an error returns no object and leaves the set of open descriptors
\* as it was before the call.
C4_FailedConstructionHoldsNothing ==
    [][ (last'.op \in Constructors /\ last'.err # "nil") =>
            /\ OpenDescriptors' = OpenDescriptors
            /\ indexes' = indexes
            /\ readers' = readers
      ]_vars

\* A scan that failed in its middle, on the size comparison, the caller's
\* file and nothing else being open.
C4_Witness ==
    /\ last = Result("NewFromFile", "unsupported sparse file")
    /\ tarf.f # 0
    /\ OpenDescriptors = {tarf.f}

\* The descriptors the library holds: the open ones that are not the caller's.
CallerFds == IF tarf.f # 0 THEN {tarf.f} ELSE {}
HeldFds == OpenDescriptors \ CallerFds

\* C5: the descriptors the library holds are exactly one per index that has
\* not been closed plus one per reader that has not been closed (the file New
\* opens is closed when New returns), and none when all are closed.
C5_OneDescriptorPerOpenHandle ==
    /\ HeldFds = {indexes[i].f : i \in LiveIndexes} \cup
                 {readers[r].f : r \in LiveReaders}
    /\ Cardinality(HeldFds) = Cardinality(LiveIndexes) + Cardinality(LiveReaders)

\* An index New built (the caller never opened a file) with one reader opened
\* from it and another one opened and closed: two descriptors.
C5_Witness ==
    /\ ~tarf.exists
    /\ LiveIndexes # {}
    /\ Cardinality(LiveReaders) = 1
    /\ \E r \in Readers : readers[r].exists /\ readers[r].f = 0
    /\ Cardinality(OpenDescriptors) = 2

\* Closing descriptor k leaves every other open descriptor open, at the
\* position it had.
CloseFrame(k) ==
    \A h \in Fds \ {k} :
        fdtab[h] # 0 =>
            /\ fdtab'[h] # 0
            /\ ofdPos'[fdtab'[h]] = ofdPos[fdtab[h]]

\* With the caller's file closed, Open of a member of an open index succeeds
\* while the descriptor table has room.
UsableWithoutCallerFile ==
    (tarf.exists /\ tarf.f = 0 /\ FreeReaderSlots # {}
        /\ Cardinality(OpenDescriptors) < MaxFd) =>
        \A i \in LiveIndexes : \A n \in DOMAIN indexes[i].idx :
            IndexOpen(Sys, file, indexes[i], n, FALSE,
                      ReaderFd(First(FreeReaderSlots))).err = "nil"

\* C6: Index.Close closes the index's descriptor only: the readers and their
\* descriptors stay as they are, open and at their positions; a reader's Close
\* leaves the index and the other readers so; the caller's Close of its file
\* leaves the indexes and readers so, and Open works on the index afterwards.
C6_IndependentLifetimes ==
    /\ []UsableWithoutCallerFile
    /\ [][ /\ \A i \in Indexes :
                  DoIndexClose(i) =>
                      CloseFrame(indexes[i].f) /\ readers' = readers
           /\ \A r \in Readers :
                  DoReaderClose(r) =>
                      /\ CloseFrame(readers[r].f)
                      /\ indexes' = indexes
                      /\ \A q \in Readers \ {r} : readers'[q] = readers[q]
           /\ CallerClose =>
                  /\ CloseFrame(tarf.f)
                  /\ indexes' = indexes
                  /\ readers' = readers
         ]_vars

\* The caller's file and the index are closed, and a reader opened from the
\* index is open and has returned its member's bytes.
C6_Witness ==
    /\ tarf.exists /\ tarf.f = 0
    /\ \E i \in Indexes : indexes[i].exists /\ indexes[i].f = 0
    /\ \E r \in LiveReaders :
           /\ ReadsMember(readers[r])
           /\ readers[r].returned = readers[r].length
           /\ readers[r].returned > 0
           /\ ~readers[r].wrong

\* The reader in slot r, read right after the step: one byte, the one at
\* offset off, and then end-of-data.
OneByteThenEnd(r, off) ==
    /\ PartialRead(SysAfter, file, readers'[r], MaxBuf).n = 1
    /\ PartialRead(SysAfter, file, readers'[r], MaxBuf).err = "nil"
    /\ PartialRead(SysAfter, file, readers'[r], MaxBuf).pr.returned = 1
    /\ ~PartialRead(SysAfter, file, readers'[r], MaxBuf).pr.wrong
    /\ PartialRead(PartialRead(SysAfter, file, readers'[r], MaxBuf).sys, file,
                   PartialRead(SysAfter, file, readers'[r], MaxBuf).pr, MaxBuf).n = 0
    /\ PartialRead(PartialRead(SysAfter, file, readers'[r], MaxBuf).sys, file,
                   PartialRead(SysAfter, file, readers'[r], MaxBuf).pr, MaxBuf).err = "EOF"

\* C7: when dup and Stat succeed, NewPartialReader(f, offset, length) succeeds
\* exactly if 0 <= offset < the file's size (so not for offset = size, not on
\* an empty file, not for offset < 0); with offset = size - 1 and length = 1
\* the reader it returns yields one byte and then end-of-data.
C7_OffsetWithinFile ==
    [][ \A off \in CtorOffsets, len \in 1..MaxLen :
            (last'.op = "NewPartialReader"
                /\ last'.err \notin {"EBADF", "EMFILE"}
                /\ DoNewPartialReader(off, len, FALSE)) =>
                /\ (last'.err = "nil") <=> (0 <= off /\ off < StatSize(file))
                /\ (last'.err = "nil" /\ off = StatSize(file) - 1 /\ len = 1) =>
                       OneByteThenEnd(First(FreeReaderSlots), off)
      ]_vars

\* NewPartialReader has just returned a reader of the file's last byte.
C7_Witness ==
    /\ last = Result("NewPartialReader", "nil")
    /\ \E r \in LiveReaders :
           /\ readers[r].start = FileSize(file) - 1
           /\ readers[r].length = 1
           /\ readers[r].remaining = 1

\* C8: Open with a name that is no key of the mapping returns the
\* no-such-element error and no reader, and leaves the descriptor table, the
\* positions, the mapping and the index's handle as they were.
C8_NoSuchElement ==
    [][ \A i \in Indexes, name \in OpenNames, sf \in BOOLEAN :
            (last'.op = "Open" /\ name \notin DOMAIN indexes[i].idx
                /\ DoOpen(i, name, sf)) =>
                /\ last'.err = "no such element"
                /\ readers' = readers
                /\ fdtab' = fdtab
                /\ ofdPos' = ofdPos
                /\ indexes' = indexes
      ]_vars

\* Open has just failed on an open index that has members.
C8_Witness ==
    /\ last = Result("Open", "no such element")
    /\ \E i \in LiveIndexes : DOMAIN indexes[i].idx # {}

\* The names of the index's entries whose type is regular file.
RegularNames(ix) == {n \in DOMAIN ix.idx : ix.idx[n].hdr.typ = "reg"}

\* C9: what a complete range over AllRegularFilePaths or AllRegularFiles
\* yields is the set of the names in All whose entry is a regular file.
C9_RegularViewsYieldRegularFiles ==
    (yielded.complete /\ yielded.view \in {"AllRegularFilePaths", "AllRegularFiles"}) =>
        yielded.names = RegularNames(indexes[yielded.who])

\* Every member among those of numbers js is stored whole: draining it ends
\* at pos + hdr.Size.
Contiguous(js) ==
    \A j \in js : file.entries[j].ok /\ file.entries[j].phys = file.entries[j].size

\* What NewFromFile returns: an index exactly if no error; every member read
\* for an index is stored whole, and so is every member read before the one a
\* failed scan stopped at.
AllOrNothing(r) ==
    /\ r.index.exists <=> r.err = "nil"
    /\ r.err = "nil" => Contiguous({r.read[j] : j \in 1..Len(r.read)})
    /\ r.err # "nil" => Contiguous({r.read[j] : j \in 1..(Len(r.read) - 1)})

\* C10: an index exists only if every member the scan read is stored whole
\* (end = pos + hdr.Size); a scan that meets a member that is not, or a failed
\* header read or drain, returns an error and no index, from wherever in the
\* file it starts.
C10_ScanAllOrNothing ==
    /\ [](\A i \in Indexes :
              indexes[i].exists =>
                  Contiguous({indexes[i].read[j] : j \in 1..Len(indexes[i].read)}))
    /\ []((tarf.f # 0 /\ FreeIndexSlots # {}) =>
              AllOrNothing(NewFromFile(Sys, file, tarf.f,
                                       IndexFd(First(FreeIndexSlots)))))
    /\ [][ (last'.op \in {"New", "NewFromFile"} /\ last'.err # "nil") =>
               indexes' = indexes ]_vars

\* New has failed on a member that is not stored whole, after a member that
\* is, and the caller holds no index.
C10_Witness ==
    /\ last = Result("New", "unsupported sparse file")
    /\ Len(file.entries) > 1
    /\ \A i \in Indexes : ~indexes[i].exists

\* C11: the mapping of an index holds an entry for a member only if the
\* member is a regular file or a directory; symlinks, devices and the like
\* are skipped.
C11_OnlyFilesAndDirectories ==
    \A i \in Indexes :
        indexes[i].exists =>
            \A n \in DOMAIN indexes[i].idx :
                indexes[i].idx[n].hdr.typ \in {"reg", "dir"}

\* C12: NewFromFile leaves the read position of the caller's file where it
\* was before the call, and a Seek of the caller on its file leaves the
\* position of every index and of every reader where it was.
C12_CallerCursorApart ==
    [][ /\ (last'.op = "NewFromFile" /\ tarf.f # 0 /\ DoNewFromFile) =>
               ofdPos'[fdtab'[tarf.f]] = ofdPos[fdtab[tarf.f]]
        /\ \A p \in 0..(FileSize(file) + 1) :
               CallerSeek(p) =>
                   /\ \A i \in LiveIndexes :
                          ofdPos'[fdtab'[indexes[i].f]] = ofdPos[fdtab[indexes[i].f]]
                   /\ \A r \in LiveReaders :
                          ofdPos'[fdtab'[readers[r].f]] = ofdPos[fdtab[readers[r].f]]
      ]_vars

\* The members a scan read, and the last of them that bears name n.
MembersRead(read) == {read[j] : j \in 1..Len(read)}
LastNamed(read, n) ==
    read[CHOOSE j \in 1..Len(read) :
             /\ file.entries[read[j]].name = n
             /\ \A k \in 1..Len(read) : file.entries[read[k]].name = n => k <= j]

\* C13: the mapping has one entry per name the scan read, and it is the
\* header and the content offset of the last member of that name in archive
\* order; the reader Open returns for the name is over that member's range.
C13_LastDuplicateWins ==
    \A i \in Indexes :
        indexes[i].exists =>
            /\ DOMAIN indexes[i].idx =
                   {file.entries[j].name : j \in MembersRead(indexes[i].read)}
            /\ \A n \in DOMAIN indexes[i].idx :
                   /\ indexes[i].idx[n].hdr =
                          file.entries[LastNamed(indexes[i].read, n)]
                   /\ indexes[i].idx[n].Offset =
                          file.starts[LastNamed(indexes[i].read, n)] + BlockSize
                   /\ (indexes[i].f # 0 /\ FreeReaderSlots # {}
                          /\ Cardinality(OpenDescriptors) < MaxFd) =>
                          \/ IndexOpen(Sys, file, indexes[i], n, FALSE,
                                       ReaderFd(First(FreeReaderSlots))).err # "nil"
                          \/ /\ IndexOpen(Sys, file, indexes[i], n, FALSE,
                                          ReaderFd(First(FreeReaderSlots))).pr.start =
                                 file.starts[LastNamed(indexes[i].read, n)] + BlockSize
                             /\ IndexOpen(Sys, file, indexes[i], n, FALSE,
                                          ReaderFd(First(FreeReaderSlots))).pr.length =
                                 file.entries[LastNamed(indexes[i].read, n)].size

\* An index of an archive with two members of one name, and a reader Open has
\* just returned for the name: it is over the second member's range.
C13_Witness ==
    /\ last = Result("Open", "nil")
    /\ \E i \in LiveIndexes :
           /\ Len(indexes[i].read) = 2
           /\ file.entries[1].name = file.entries[2].name
           /\ \E r \in LiveReaders :
                  /\ readers[r].start = file.starts[2] + BlockSize
                  /\ readers[r].length = file.entries[2].size

\* Reader pr was constructed over a range that starts inside the file and
\* ends beyond its end.
Overruns(pr) ==
    /\ 0 <= pr.start
    /\ pr.start < FileSize(file)
    /\ pr.start + pr.length > FileSize(file)

\* C14: a reader whose range starts inside the file and ends beyond its end
\* returns, by the time a Read reports end-of-data, exactly the file size minus
\* offset bytes, the bytes of the file from its offset on; before that it
\* never returns more.
C14_OverrunYieldsTheRest ==
    \A r \in LiveReaders :
        Overruns(readers[r]) =>
            /\ readers[r].returned <= FileSize(file) - readers[r].start
            /\ readers[r].eod =>
                   /\ readers[r].returned = FileSize(file) - readers[r].start
                   /\ ~readers[r].wrong

\* The offset right after the header block of the member that entry n of
\* index ix stands for.
AfterHeader(ix, n) == file.starts[LastNamed(ix.read, n)] + BlockSize

\* C15 as stated: the offset recorded for a zero-length member or a directory
\* is 0, and for every other member the absolute offset of its first content
\* byte.
C15_ZeroOffsetWithoutContent ==
    \A i \in Indexes :
        indexes[i].exists =>
            \A n \in DOMAIN indexes[i].idx :
                indexes[i].idx[n].Offset =
                    IF indexes[i].idx[n].hdr.size = 0
                          \/ indexes[i].idx[n].hdr.typ = "dir"
                      THEN 0
                      ELSE AfterHeader(indexes[i], n)

\* C15: the offset recorded for every member, with or without content, is the
\* absolute offset of the byte after its header block, where its content
\* starts or would start; it is never 0.
C15_OffsetAfterHeader ==
    \A i \in Indexes :
        indexes[i].exists =>
            \A n \in DOMAIN indexes[i].idx :
                /\ indexes[i].idx[n].Offset = AfterHeader(indexes[i], n)
                /\ indexes[i].idx[n].Offset > 0

\* An index with a directory and with a member that has content.
C15_Witness ==
    \E i \in Indexes :
        /\ indexes[i].exists
        /\ \E n \in DOMAIN indexes[i].idx :
               indexes[i].idx[n].hdr.typ = "dir" /\ indexes[i].idx[n].Offset > 0
        /\ \E n \in DOMAIN indexes[i].idx : indexes[i].idx[n].hdr.size > 0

\* What the last range has yielded is of the view it ranged over: no more
\* entries than the consumer took, and all of the view's entries, the same
\* whenever it runs, if the consumer took them all.
YieldedOfView ==
    yielded.view # "" =>
        /\ yielded.names \subseteq ViewOf(indexes[yielded.who], yielded.view)
        /\ yielded.stop > 0 => Cardinality(yielded.names) <= yielded.stop
        /\ yielded.complete =>
               yielded.names = ViewOf(indexes[yielded.who], yielded.view)

\* The step is a range over an iterator; the step is a call of Open.
RangeStep == \E i \in Indexes, view \in Views, stop \in 0..MaxStop : DoRange(i, view, stop)
OpenStep ==
    /\ last'.op = "Open"
    /\ \E i \in Indexes, name \in OpenNames : DoOpen(i, name, FALSE)

\* C16 as stated: Open and the iterators, run to the end or abandoned, leave
\* the mapping and the set of open descriptors unchanged; nothing is yielded
\* after the consumer stops and a view yields the same entries every time.
C16_NothingChanges ==
    /\ []YieldedOfView
    /\ [][ (RangeStep \/ OpenStep) =>
               /\ indexes' = indexes
               /\ OpenDescriptors' = OpenDescriptors
         ]_vars

\* C16: Open and the iterators, run to the end or abandoned, leave the
\* mapping and the index's handle unchanged; the iterators leave the open
\* descriptors and their positions unchanged too, while an Open that succeeds
\* adds the one descriptor of its reader; nothing is yielded after the consumer
\* stops and a view yields the same entries every time.
C16_ViewsLeaveIndexAlone ==
    /\ []YieldedOfView
    /\ [][ /\ (RangeStep \/ OpenStep) => indexes' = indexes
           /\ RangeStep =>
                  /\ fdtab' = fdtab
                  /\ ofdPos' = ofdPos
                  /\ readers' = readers
           /\ OpenStep =>
                  OpenDescriptors' =
                      IF last'.err = "nil"
                        THEN OpenDescriptors \cup {ReaderFd(First(FreeReaderSlots))}
                        ELSE OpenDescriptors
         ]_vars

\* A consumer has abandoned a view of several entries after the first, on an
\* index a reader was opened from.
C16_Witness ==
    /\ yielded.stop = 1
    /\ ~yielded.complete
    /\ Cardinality(yielded.names) = 1
    /\ Cardinality(ViewOf(indexes[yielded.who], yielded.view)) > 1
    /\ LiveReaders # {}

\* A Read of the closed reader pr with a buffer of n bytes returns no byte,
\* an error if bytes remain and end-of-data if none do, and leaves remaining.
ReadsNothing(pr, n) ==
    /\ PartialRead(Sys, file, pr, n).n = 0
    /\ PartialRead(Sys, file, pr, n).sys = Sys
    /\ PartialRead(Sys, file, pr, n).pr.remaining = pr.remaining
    /\ PartialRead(Sys, file, pr, n).err =
           IF pr.remaining > 0 THEN "ErrClosed" ELSE "EOF"

\* An Open of name on the closed index ix fails, returns no reader and leaves
\* the descriptor table as it is.
OpensNothing(ix, name, k) ==
    /\ IndexOpen(Sys, file, ix, name, FALSE, k).err # "nil"
    /\ ~IndexOpen(Sys, file, ix, name, FALSE, k).pr.exists
    /\ IndexOpen(Sys, file, ix, name, FALSE, k).sys = Sys

\* C17: once a reader is closed, every Read on it returns 0 bytes (an error
\* while remaining > 0, end-of-data otherwise), it has returned nothing since
\* and remaining stays; once an index is closed, every Open on it fails and
\* acquires no descriptor.
C17_NoUseAfterClose ==
    /\ [](\A r \in Readers :
              (readers[r].exists /\ readers[r].f = 0) =>
                  /\ readers[r].returned = 0
                  /\ \A n \in 0..MaxBuf : ReadsNothing(readers[r], n))
    /\ [](\A i \in Indexes :
              (indexes[i].exists /\ indexes[i].f = 0) =>
                  \A name \in OpenNames, r \in Readers :
                      OpensNothing(indexes[i], name, ReaderFd(r)))
    /\ [][ \A r \in Readers :
               (readers[r].exists /\ readers[r].f = 0 /\ readers'[r].f = 0) =>
                   readers'[r].remaining = readers[r].remaining
         ]_vars
    /\ [][ (last'.op = "Open" /\ \A i \in Indexes : indexes[i].f = 0) =>
               /\ last'.err # "nil"
               /\ fdtab' = fdtab
               /\ readers' = readers
         ]_vars

\* A reader closed with bytes remaining, and an Open that has just failed on
\* a member of a closed index.
C17_Witness ==
    /\ \E r \in Readers :
           readers[r].exists /\ readers[r].f = 0 /\ readers[r].remaining > 0
    /\ \A i \in Indexes : indexes[i].exists /\ indexes[i].f = 0
    /\ last = Result("Open", "EBADF")

\* The names of index ix whose member has content.
WithContent(ix) == {n \in DOMAIN ix.idx : ix.idx[n].hdr.size > 0}

\* C18: every recorded range lies inside the file (0 < Offset and
\* Offset + Size <= the file's size); the offsets of the members with content
\* increase strictly in archive order; and the ranges of two such members
\* have no byte in common.
C18_RangesInsideAndApart ==
    \A i \in Indexes :
        indexes[i].exists =>
            /\ \A n \in DOMAIN indexes[i].idx :
                   /\ 0 < indexes[i].idx[n].Offset
                   /\ indexes[i].idx[n].Offset + indexes[i].idx[n].hdr.size
                          <= FileSize(file)
            /\ \A n, m \in WithContent(indexes[i]) :
                   /\ LastNamed(indexes[i].read, n) < LastNamed(indexes[i].read, m) =>
                          indexes[i].idx[n].Offset < indexes[i].idx[m].Offset
                   /\ n # m =>
                          \/ indexes[i].idx[n].Offset + indexes[i].idx[n].hdr.size
                                 <= indexes[i].idx[m].Offset
                          \/ indexes[i].idx[m].Offset + indexes[i].idx[m].hdr.size
                                 <= indexes[i].idx[n].Offset

\* An index with two members that have content.
C18_Witness ==
    \E i \in Indexes :
        /\ indexes[i].exists
        /\ Cardinality(WithContent(indexes[i])) = 2

====
